---- MODULE Spec2Model ----
(***************************************************************************)
(* JurisGuard PII redactor (app/scripts/pii_redactor.py).                  *)
(*                                                                         *)
(* The module keeps two process-wide engine handles that are built lazily  *)
(* by _get_engines, and offers secure_text (detect, then redact) and       *)
(* analyze_only (detect, then report positions).  The two engines are the  *)
(* Presidio analyzer and anonymizer: external collaborators whose calls    *)
(* may raise and whose results are chosen here from bounded sets.          *)
(*                                                                         *)
(* Python text is a sequence of one-character strings, "" and [] are both  *)
(* the empty sequence, None engine handles are 0, and character offsets    *)
(* are 0-based with an exclusive end, as in the source.                    *)
(***************************************************************************)
EXTENDS Integers, Sequences, FiniteSets

(* ------------------------------ bounds -------------------------------- *)

\* Longest input text.
MaxTextLen == 2
\* Most findings the analyzer returns for one text.
MaxFindings == 2
\* Most engines of each kind ever constructed in one run.
MaxEngines == 2
\* Callers of the concurrent specification.
NThreads == 2

(* ----------------------------- constants ------------------------------ *)

\* The value of an unset engine handle.
None == 0

\* The single caller of the sequential specification.
SeqThreads == {1}

\* The callers of the concurrent specification.
Threads == 1..NThreads

\* Characters of the input texts: a whitespace character and a letter.
Whitespace == {" "}

Chars == Whitespace \cup {"a"}

\* The entry points: the two public functions and the lifecycle manager.
Ops == {"secure_text", "analyze_only", "_get_engines"}

LEGAL_PII_ENTITIES ==
  << "PERSON", "PHONE_NUMBER", "EMAIL_ADDRESS", "US_SSN", "IBAN_CODE",
     "CREDIT_CARD", "US_DRIVER_LICENSE", "US_PASSPORT", "IP_ADDRESS",
     "DATE_TIME", "LOCATION" >>

\* A mutation of the policy: the DEFAULT rule is missing.
REDACTION_OPERATORS_NoDefault ==
  [ e \in {"PERSON", "PHONE_NUMBER", "EMAIL_ADDRESS", "US_SSN", "IBAN_CODE",
           "CREDIT_CARD", "US_DRIVER_LICENSE", "US_PASSPORT", "IP_ADDRESS",
           "LOCATION"} |->
      CASE e = "PERSON"            -> "<PARTY>"
        [] e = "PHONE_NUMBER"      -> "<PHONE>"
        [] e = "EMAIL_ADDRESS"     -> "<EMAIL>"
        [] e = "US_SSN"            -> "<SSN_REDACTED>"
        [] e = "IBAN_CODE"         -> "<BANK_ACCOUNT>"
        [] e = "CREDIT_CARD"       -> "<CREDIT_CARD>"
        [] e = "US_DRIVER_LICENSE" -> "<LICENSE>"
        [] e = "US_PASSPORT"       -> "<PASSPORT>"
        [] e = "IP_ADDRESS"        -> "<IP_ADDRESS>"
        [] e = "LOCATION"          -> "<ADDRESS>" ]

\* Every rule is OperatorConfig("replace", {"new_value": v}); the rule is
\* represented by v.
REDACTION_OPERATORS ==
  [ e \in {"DEFAULT", "PERSON", "PHONE_NUMBER", "EMAIL_ADDRESS", "US_SSN",
           "IBAN_CODE", "CREDIT_CARD", "US_DRIVER_LICENSE", "US_PASSPORT",
           "IP_ADDRESS", "LOCATION"} |->
      CASE e = "DEFAULT"           -> "<REDACTED>"
        [] e = "PERSON"            -> "<PARTY>"
        [] e = "PHONE_NUMBER"      -> "<PHONE>"
        [] e = "EMAIL_ADDRESS"     -> "<EMAIL>"
        [] e = "US_SSN"            -> "<SSN_REDACTED>"
        [] e = "IBAN_CODE"         -> "<BANK_ACCOUNT>"
        [] e = "CREDIT_CARD"       -> "<CREDIT_CARD>"
        [] e = "US_DRIVER_LICENSE" -> "<LICENSE>"
        [] e = "US_PASSPORT"       -> "<PASSPORT>"
        [] e = "IP_ADDRESS"        -> "<IP_ADDRESS>"
        [] e = "LOCATION"          -> "<ADDRESS>" ]

(* --------------------------- pure functions --------------------------- *)

Range(s) == { s[i] : i \in DOMAIN s }

\* str.strip(): the text without its leading and trailing whitespace.
RECURSIVE LStrip(_)
LStrip(s) ==
  IF s = << >> THEN << >>
  ELSE IF Head(s) \in Whitespace THEN LStrip(Tail(s)) ELSE s

RECURSIVE RStrip(_)
RStrip(s) ==
  IF s = << >> THEN << >>
  ELSE IF s[Len(s)] \in Whitespace THEN RStrip(SubSeq(s, 1, Len(s) - 1)) ELSE s

Strip(s) == RStrip(LStrip(s))

\* A mutation of the guard: only the empty text is taken for blank.
IsBlank_EmptyOnly(t) == t = << >>

\* `not text or not text.strip()`
IsBlank(t) == t = << >> \/ Strip(t) = << >>

\* The entities argument: omitted (None) or a list.
Omitted == [given |-> FALSE, list |-> << >>]

Given(l) == [given |-> TRUE, list |-> l]

\* A mutation of the default: the default is used only for None.
TargetEntities_NoneOnly(e) == IF e.given THEN e.list ELSE LEGAL_PII_ENTITIES

\* `entities or LEGAL_PII_ENTITIES`: None and the empty list are both falsy.
TargetEntities(e) ==
  IF e.given /\ e.list # << >> THEN e.list ELSE LEGAL_PII_ENTITIES

(* ----------------------- the external collaborators ------------------- *)

\* The entity types the recognizer pool of this model can produce: one with a
\* rule of its own and one that falls to DEFAULT.
RecognizerTypes == {"PERSON", "DATE_TIME"}

\* Confidence scores, in hundredths.
Scores == {85}

RecognizerName(type) ==
  IF type = "PERSON" THEN "SpacyRecognizer" ELSE "DateRecognizer"

\* The RecognizerResult objects the analyzer may return for `txt`: a span of
\* the text, a type of the allowlist, a score, and the recognizer's metadata.
RecognizerResults(txt, target) ==
  { r \in [entity_type : RecognizerTypes \cap Range(target),
           start : 0..(Len(txt) - 1), end : 1..Len(txt), score : Scores,
           recognition_metadata : {"SpacyRecognizer", "DateRecognizer"}] :
      /\ r.start < r.end
      /\ r.recognition_metadata = RecognizerName(r.entity_type) }

Overlap(f, g) == f.start < g.end /\ g.start < f.end

\* Span f lies inside span g.
Inside(f, g) == g.start <= f.start /\ f.end <= g.end

\* The analyzer drops a result that lies inside another result of the same
\* entity type; results of different types, and results that only partly
\* overlap, are all returned.
Deduplicated(rs) ==
  \A i, j \in DOMAIN rs :
    (i # j /\ rs[i].entity_type = rs[j].entity_type) => ~Inside(rs[i], rs[j])

\* analyzer.analyze(text, entities, language): every list of candidates, in
\* any order and overlapping or not, that the recognizers may propose.
AnalyzerOutputs(txt, target) ==
  { rs \in UNION { [1..n -> RecognizerResults(txt, target)] : n \in 0..MaxFindings } :
      Deduplicated(rs) }

\* results[i] wins a conflict with results[j]: the higher score, then the
\* longer span, then the earlier start, then the earlier candidate.
Beats(results, i, j) ==
  LET f == results[i]
      g == results[j]
      lf == f.end - f.start
      lg == g.end - g.start
  IN  \/ f.score > g.score
      \/ f.score = g.score /\ lf > lg
      \/ f.score = g.score /\ lf = lg /\ f.start < g.start
      \/ f.score = g.score /\ lf = lg /\ f.start = g.start /\ i < j

\* The findings the anonymizer replaces: those no overlapping finding beats.
Applied(results) ==
  { i \in DOMAIN results :
      \A j \in DOMAIN results :
        (j # i /\ Overlap(results[i], results[j])) => Beats(results, i, j) }

\* The replacement rule of an entity type: its own, else DEFAULT.
OperatorFor(operators, entity_type) ==
  IF entity_type \in DOMAIN operators
  THEN operators[entity_type]
  ELSE operators["DEFAULT"]

\* Replace the findings `todo` of `results` in `txt`, rightmost first.
RECURSIVE ReplaceSpans(_, _, _, _)
ReplaceSpans(txt, results, todo, operators) ==
  IF todo = {} THEN txt
  ELSE LET i == CHOOSE k \in todo : \A j \in todo : results[j].start <= results[k].start
           f == results[i]
       IN  ReplaceSpans(SubSeq(txt, 1, f.start)
                          \o << OperatorFor(operators, f.entity_type) >>
                          \o SubSeq(txt, f.end + 1, Len(txt)),
                        results, todo \ {i}, operators)

\* anonymizer.anonymize(text, analyzer_results, operators).text
AnonymizedText(txt, results, operators) ==
  ReplaceSpans(txt, results, Applied(results), operators)

(* ------------------------------ results ------------------------------- *)

NoResult == [kind |-> "none", value |-> << >>, exc |-> ""]

Return(v) == [kind |-> "return", value |-> v, exc |-> ""]

Raise(e) == [kind |-> "raise", value |-> << >>, exc |-> e]

NotCalled == [called |-> FALSE, entities |-> << >>, language |-> ""]

\* A mutation of the report: the whole RecognizerResult is returned.
AuditRecords_Raw(results) == results

\* The list comprehension of analyze_only: positions only.
AuditRecords(results) ==
  [ i \in DOMAIN results |->
      [entity_type |-> results[i].entity_type,
       start       |-> results[i].start,
       end         |-> results[i].end,
       score       |-> results[i].score] ]

\* A mutation of the test: the anonymizer is called on every result list.
NoFindings_Never(results) == FALSE

\* `if not results`
NoFindings(results) == results = << >>

(* ------------------------------- state -------------------------------- *)

VARIABLES
  _analyzer,            \* the global analyzer handle, None or the engine's id
  _anonymizer,          \* the global anonymizer handle, None or the engine's id
  redaction_operators,  \* the global REDACTION_OPERATORS dictionary
  nAnalyzer,            \* AnalyzerEngine() constructions completed so far
  nAnonymizer,          \* AnonymizerEngine() constructions completed so far
  initFailed,           \* some construction has raised so far
  pc,                   \* each caller's position
  op,                   \* the entry point each caller is in
  text,                 \* its text argument
  entities,             \* its entities argument
  engines,              \* the pair _get_engines has read for it so far
  analyzeArgs,          \* the arguments of its analyzer.analyze call
  anonymizeCalled,      \* whether it has called anonymizer.anonymize
  errors,               \* the steps of its call that raised
  results,              \* what analyzer.analyze returned to it
  ret                   \* how its call ended

globals == << _analyzer, _anonymizer, redaction_operators, nAnalyzer,
              nAnonymizer, initFailed >>

locals == << pc, op, text, entities, engines, analyzeArgs, anonymizeCalled,
             errors, results, ret >>

vars == << globals, locals >>

\* The callers of the run.
Callers == DOMAIN pc

\* The input texts.
Texts == UNION { [1..n -> Chars] : n \in 0..MaxTextLen }

\* The entities arguments: omitted, empty, a type with a rule of its own, a
\* type without one.
EntityArgs == { Omitted, Given(<< >>), Given(<< "PERSON" >>), Given(<< "DATE_TIME" >>) }

InitWith(callers) ==
  /\ _analyzer = None
  /\ _anonymizer = None
  /\ redaction_operators = REDACTION_OPERATORS
  /\ nAnalyzer = 0
  /\ nAnonymizer = 0
  /\ initFailed = FALSE
  /\ pc = [t \in callers |-> "idle"]
  /\ op = [t \in callers |-> "_get_engines"]
  /\ text = [t \in callers |-> << >>]
  /\ entities = [t \in callers |-> Omitted]
  /\ engines = [t \in callers |-> << None, None >>]
  /\ analyzeArgs = [t \in callers |-> NotCalled]
  /\ anonymizeCalled = [t \in callers |-> FALSE]
  /\ errors = [t \in callers |-> {}]
  /\ results = [t \in callers |-> << >>]
  /\ ret = [t \in callers |-> NoResult]

(* ------------------------------ actions ------------------------------- *)

\* How a call ends: the caller holds the result until it takes it.
Ends(t, r) ==
  /\ pc' = [pc EXCEPT ![t] = "done"]
  /\ ret' = [ret EXCEPT ![t] = r]

\* A call of secure_text, analyze_only or _get_engines begins.  The public
\* functions return at once on a blank text.
Call(t, o, txt, ents) ==
  /\ pc[t] = "idle"
  /\ op' = [op EXCEPT ![t] = o]
  /\ text' = [text EXCEPT ![t] = txt]
  /\ entities' = [entities EXCEPT ![t] = ents]
  /\ IF o # "_get_engines" /\ IsBlank(txt)
     THEN Ends(t, Return(<< >>))
     ELSE /\ pc' = [pc EXCEPT ![t] = "check"]
          /\ ret' = ret
  /\ UNCHANGED << globals, engines, analyzeArgs, anonymizeCalled, errors, results >>

\* _get_engines: `if _analyzer is None or _anonymizer is None`.  A handle that
\* is set is never unset, so reading the two globals in one step loses no
\* interleaving.
CheckEngines(t) ==
  /\ pc[t] = "check"
  /\ pc' = [pc EXCEPT ![t] =
              IF _analyzer = None \/ _anonymizer = None
              THEN "new_analyzer" ELSE "read_analyzer"]
  /\ UNCHANGED << globals, op, text, entities, engines, analyzeArgs,
                  anonymizeCalled, errors, results, ret >>

\* `_analyzer = AnalyzerEngine()`
NewAnalyzer(t) ==
  /\ pc[t] = "new_analyzer"
  /\ nAnalyzer < MaxEngines
  /\ nAnalyzer' = nAnalyzer + 1
  /\ _analyzer' = nAnalyzer + 1
  /\ pc' = [pc EXCEPT ![t] = "new_anonymizer"]
  /\ UNCHANGED << _anonymizer, redaction_operators, nAnonymizer, initFailed,
                  op, text, entities, engines, analyzeArgs, anonymizeCalled,
                  errors, results, ret >>

\* The except branch of _get_engines: log, raise RuntimeError.  No global is
\* assigned.
InitRaises(t) ==
  /\ initFailed' = TRUE
  /\ errors' = [errors EXCEPT ![t] = @ \cup {"init"}]
  /\ Ends(t, Raise("RuntimeError"))
  /\ UNCHANGED << _analyzer, _anonymizer, redaction_operators, nAnalyzer,
                  nAnonymizer, op, text, entities, engines, analyzeArgs,
                  anonymizeCalled, results >>

\* AnalyzerEngine() raises.
NewAnalyzerRaises(t) ==
  /\ pc[t] = "new_analyzer"
  /\ InitRaises(t)

\* `_anonymizer = AnonymizerEngine()`
NewAnonymizer(t) ==
  /\ pc[t] = "new_anonymizer"
  /\ nAnonymizer < MaxEngines
  /\ nAnonymizer' = nAnonymizer + 1
  /\ _anonymizer' = nAnonymizer + 1
  /\ pc' = [pc EXCEPT ![t] = "read_analyzer"]
  /\ UNCHANGED << _analyzer, redaction_operators, nAnalyzer, initFailed,
                  op, text, entities, engines, analyzeArgs, anonymizeCalled,
                  errors, results, ret >>

\* AnonymizerEngine() raises, after _analyzer was assigned.
NewAnonymizerRaises(t) ==
  /\ pc[t] = "new_anonymizer"
  /\ InitRaises(t)

\* `return _analyzer, _anonymizer`: the first global is read.
ReadAnalyzer(t) ==
  /\ pc[t] = "read_analyzer"
  /\ engines' = [engines EXCEPT ![t] = << _analyzer, None >>]
  /\ pc' = [pc EXCEPT ![t] = "read_anonymizer"]
  /\ UNCHANGED << globals, op, text, entities, analyzeArgs, anonymizeCalled,
                  errors, results, ret >>

\* `return _analyzer, _anonymizer`: the second global is read and the pair
\* returned, to the caller of _get_engines or into secure_text / analyze_only.
ReadAnonymizer(t) ==
  /\ pc[t] = "read_anonymizer"
  /\ engines' = [engines EXCEPT ![t] = << engines[t][1], _anonymizer >>]
  /\ IF op[t] = "_get_engines"
     THEN Ends(t, Return(<< engines[t][1], _anonymizer >>))
     ELSE /\ pc' = [pc EXCEPT ![t] = "analyze"]
          /\ ret' = ret
  /\ UNCHANGED << globals, op, text, entities, analyzeArgs, anonymizeCalled,
                  errors, results >>

\* analyzer.analyze(text=text, entities=target_entities, language='en')
AnalyzeCall(t) ==
  analyzeArgs' = [analyzeArgs EXCEPT ![t] =
                    [called |-> TRUE, entities |-> TargetEntities(entities[t]),
                     language |-> "en"]]

\* The analyzer returns rs, one of AnalyzerOutputs.  secure_text returns the text when rs is empty and
\* goes on to anonymize otherwise; analyze_only returns the audit records.
Analyze(t, rs) ==
  /\ pc[t] = "analyze"
  /\ AnalyzeCall(t)
  /\ results' = [results EXCEPT ![t] = rs]
  /\ IF op[t] = "analyze_only"
     THEN Ends(t, Return(AuditRecords(rs)))
     ELSE IF NoFindings(rs)
          THEN Ends(t, Return(text[t]))
          ELSE /\ pc' = [pc EXCEPT ![t] = "anonymize"]
               /\ ret' = ret
  /\ UNCHANGED << globals, op, text, entities, engines, anonymizeCalled, errors >>

\* The analyzer raises.  The except branch of secure_text returns the raw
\* text; that of analyze_only returns [].
AnalyzeRaises(t) ==
  /\ pc[t] = "analyze"
  /\ AnalyzeCall(t)
  /\ errors' = [errors EXCEPT ![t] = @ \cup {"analyze"}]
  /\ IF op[t] = "analyze_only"
     THEN Ends(t, Return(<< >>))
     ELSE Ends(t, Return(text[t]))
  /\ UNCHANGED << globals, op, text, entities, engines, anonymizeCalled, results >>

\* anonymizer.anonymize(text, analyzer_results=results,
\* operators=REDACTION_OPERATORS) returns; secure_text returns its text.
Anonymize(t) ==
  /\ pc[t] = "anonymize"
  /\ anonymizeCalled' = [anonymizeCalled EXCEPT ![t] = TRUE]
  /\ Ends(t, Return(AnonymizedText(text[t], results[t], redaction_operators)))
  /\ UNCHANGED << globals, op, text, entities, engines, analyzeArgs, errors, results >>

\* The anonymizer raises: the except branch of secure_text returns the raw text.
AnonymizeRaises(t) ==
  /\ pc[t] = "anonymize"
  /\ anonymizeCalled' = [anonymizeCalled EXCEPT ![t] = TRUE]
  /\ errors' = [errors EXCEPT ![t] = @ \cup {"anonymize"}]
  /\ Ends(t, Return(text[t]))
  /\ UNCHANGED << globals, op, text, entities, engines, analyzeArgs, results >>

\* The caller takes the result; its frame is gone.
Finish(t) ==
  /\ pc[t] = "done"
  /\ pc' = [pc EXCEPT ![t] = "idle"]
  /\ op' = [op EXCEPT ![t] = "_get_engines"]
  /\ text' = [text EXCEPT ![t] = << >>]
  /\ entities' = [entities EXCEPT ![t] = Omitted]
  /\ engines' = [engines EXCEPT ![t] = << None, None >>]
  /\ analyzeArgs' = [analyzeArgs EXCEPT ![t] = NotCalled]
  /\ anonymizeCalled' = [anonymizeCalled EXCEPT ![t] = FALSE]
  /\ errors' = [errors EXCEPT ![t] = {}]
  /\ results' = [results EXCEPT ![t] = << >>]
  /\ ret' = [ret EXCEPT ![t] = NoResult]
  /\ UNCHANGED globals

(* --------------------------- specifications --------------------------- *)

\* A step of some caller other than the start of a call.
Step ==
  \/ \E t \in Callers : CheckEngines(t)
  \/ \E t \in Callers : NewAnalyzer(t)
  \/ \E t \in Callers : NewAnalyzerRaises(t)
  \/ \E t \in Callers : NewAnonymizer(t)
  \/ \E t \in Callers : NewAnonymizerRaises(t)
  \/ \E t \in Callers : ReadAnalyzer(t)
  \/ \E t \in Callers : ReadAnonymizer(t)
  \/ \E t \in Callers :
       /\ pc[t] = "analyze"
       /\ \E rs \in AnalyzerOutputs(text[t], TargetEntities(entities[t])) : Analyze(t, rs)
  \/ \E t \in Callers : AnalyzeRaises(t)
  \/ \E t \in Callers : Anonymize(t)
  \/ \E t \in Callers : AnonymizeRaises(t)
  \/ \E t \in Callers : Finish(t)

\* One caller at a time, over every text, entities argument and analyzer output.
Init == InitWith(SeqThreads)

Next ==
  \/ \E t \in Callers :
       /\ pc[t] = "idle"
       /\ \E o \in Ops, txt \in Texts, ents \in EntityArgs : Call(t, o, txt, ents)
  \/ Step

Spec == Init /\ [][Next]_vars

\* The inputs of the concurrent callers: a blank and a non-blank text, the
\* default allowlist.
ConcTexts == { << " " >>, << "a" >> }

\* NThreads callers whose steps interleave.
InitConc == InitWith(Threads)

NextConc ==
  \/ \E t \in Callers :
       /\ pc[t] = "idle"
       /\ \E o \in Ops, txt \in ConcTexts : Call(t, o, txt, Omitted)
  \/ Step

SpecConc == InitConc /\ [][NextConc]_vars

(* ------------------------------- claims ------------------------------- *)

DataOps == {"secure_text", "analyze_only"}

\* Every character of the text is whitespace (the empty text included).
AllWhitespace(txt) == \A i \in DOMAIN txt : txt[i] \in Whitespace

\* The call of caller t has ended.
Ended(t) == pc[t] = "done"

\* The analyzer call of caller t has completed without raising.
Analyzed(t) == analyzeArgs[t].called /\ "analyze" \notin errors[t]

\* C1: secure_text is fail-closed: when engine initialization, analyze or
\* anonymize raised during a call on a non-blank text, the call ends by
\* raising and never by returning the original text.
C1_FailClosed ==
  \A t \in Callers :
    (Ended(t) /\ op[t] = "secure_text" /\ ~AllWhitespace(text[t]) /\ errors[t] # {})
      => /\ ret[t].kind = "raise"
         /\ ~(ret[t].kind = "return" /\ ret[t].value = text[t])

\* The engine pair caller t holds once _get_engines has returned to it.
Received(t) == engines[t][2] # None

\* C2: with several callers in _get_engines while the engines are unset and
\* no construction raising, each engine is constructed exactly once and all
\* callers receive the same (analyzer, anonymizer) pair.
C2_ConstructedOnce ==
  /\ ~initFailed => (nAnalyzer <= 1 /\ nAnonymizer <= 1)
  /\ \A t, u \in Callers :
       (~initFailed /\ Received(t) /\ Received(u)) => engines[t] = engines[u]

\* C3: analyze_only never degrades to "no PII found": when initialization or
\* analyze raised on a non-blank text the call ends by raising, and an empty
\* list is returned only for a blank text or an analysis with zero findings.
C3_NoSilentEmpty ==
  \A t \in Callers :
    (Ended(t) /\ op[t] = "analyze_only")
      => /\ (~AllWhitespace(text[t]) /\ errors[t] # {}) => ret[t].kind = "raise"
         /\ ret[t] = Return(<< >>)
              => (AllWhitespace(text[t]) \/ (Analyzed(t) /\ results[t] = << >>))

\* C4: after a call of _get_engines has failed, whichever construction
\* raised, the call has raised to its caller and no engine handle is retained:
\* both globals are None again.
C4_FailureResets ==
  \A t \in Callers :
    (Ended(t) /\ "init" \in errors[t])
      => /\ ret[t].kind = "raise"
         /\ _analyzer = None
         /\ _anonymizer = None

\* C5: a call of secure_text or analyze_only on an empty or all-whitespace
\* text ends at once with the empty string / the empty list; it constructs and
\* invokes no engine and leaves the lifecycle state as it was.
C5_BlankStep ==
  \A t \in Callers :
    (pc[t] = "idle" /\ pc'[t] # "idle" /\ op'[t] \in DataOps /\ AllWhitespace(text'[t]))
      => /\ pc'[t] = "done"
         /\ ret'[t] = Return(<< >>)
         /\ ~analyzeArgs'[t].called
         /\ ~anonymizeCalled'[t]
         /\ engines'[t] = << None, None >>
         /\ UNCHANGED globals

C5_BlankReturnsEmpty == [][C5_BlankStep]_vars

\* A call on a non-empty all-whitespace text has ended with the empty result
\* while the engines are still unset.
C5_Witness ==
  \E t \in Callers :
    /\ Ended(t) /\ op[t] = "secure_text"
    /\ text[t] # << >> /\ AllWhitespace(text[t])
    /\ ret[t] = Return(<< >>)
    /\ _analyzer = None /\ _anonymizer = None /\ nAnalyzer = 0

\* C6: when the analyzer completes with zero findings on a non-blank text,
\* secure_text returns exactly the text without invoking the anonymizer, and
\* analyze_only returns the empty list; neither raises.
C6_NoPiiPassthrough ==
  \A t \in Callers :
    /\ (pc[t] = "anonymize" \/ anonymizeCalled[t]) => results[t] # << >>
    /\ (Ended(t) /\ op[t] \in DataOps /\ ~AllWhitespace(text[t])
          /\ Analyzed(t) /\ results[t] = << >>)
         => /\ ret[t].kind = "return"
            /\ errors[t] = {}
            /\ ~anonymizeCalled[t]
            /\ op[t] = "secure_text" => ret[t].value = text[t]
            /\ op[t] = "analyze_only" => ret[t].value = << >>

\* secure_text has returned a non-blank text unchanged after an analysis
\* without findings.
C6_Witness ==
  \E t \in Callers :
    /\ Ended(t) /\ op[t] = "secure_text"
    /\ ~AllWhitespace(text[t])
    /\ Analyzed(t) /\ results[t] = << >>
    /\ ret[t] = Return(text[t])
    /\ ~anonymizeCalled[t]

\* The placeholders of the policy.
Placeholders(operators) == { operators[e] : e \in DOMAIN operators }

\* C7: the policy always holds a DEFAULT rule and is never modified; every
\* type of the default allowlist resolves to one rule, its own or DEFAULT
\* (PERSON to <PARTY>, EMAIL_ADDRESS to <EMAIL>, PHONE_NUMBER to <PHONE>,
\* DATE_TIME to the DEFAULT <REDACTED>), and every finding redacted by
\* secure_text is replaced by the rule of its type.
C7_PolicyTotal ==
  /\ "DEFAULT" \in DOMAIN redaction_operators
  /\ redaction_operators = REDACTION_OPERATORS
  /\ \A i \in DOMAIN LEGAL_PII_ENTITIES :
       OperatorFor(redaction_operators, LEGAL_PII_ENTITIES[i])
         \in Placeholders(redaction_operators)
  /\ OperatorFor(redaction_operators, "PERSON") = "<PARTY>"
  /\ OperatorFor(redaction_operators, "EMAIL_ADDRESS") = "<EMAIL>"
  /\ OperatorFor(redaction_operators, "PHONE_NUMBER") = "<PHONE>"
  /\ "DATE_TIME" \notin DOMAIN redaction_operators
  /\ OperatorFor(redaction_operators, "DATE_TIME") = "<REDACTED>"
  /\ \A t \in Callers :
       (Ended(t) /\ op[t] = "secure_text" /\ anonymizeCalled[t] /\ errors[t] = {})
         => /\ ret[t].kind = "return"
            /\ \A i \in Applied(results[t]) :
                 OperatorFor(redaction_operators, results[t][i].entity_type)
                   \in Range(ret[t].value)
            /\ Range(ret[t].value) \subseteq Chars \cup Placeholders(redaction_operators)

\* secure_text has redacted a DATE_TIME finding, which has no rule of its own,
\* with the DEFAULT placeholder.
C7_Witness ==
  \E t \in Callers :
    /\ Ended(t) /\ op[t] = "secure_text" /\ anonymizeCalled[t] /\ errors[t] = {}
    /\ \E i \in Applied(results[t]) : results[t][i].entity_type = "DATE_TIME"
    /\ "<REDACTED>" \in Range(ret[t].value)

\* The findings are sorted by start, inside the text, and do not overlap.
WellFormed(fs, txt) ==
  /\ \A i \in DOMAIN fs : 0 <= fs[i].start /\ fs[i].start < fs[i].end /\ fs[i].end <= Len(txt)
  /\ \A i, j \in DOMAIN fs : i < j => fs[i].start <= fs[j].start
  /\ \A i, j \in DOMAIN fs : i # j => ~Overlap(fs[i], fs[j])

\* C8: whatever candidates the recognizers propose, the findings analyze_only
\* returns and the findings secure_text hands to the anonymizer are sorted by
\* ascending start, lie inside the text and are mutually non-overlapping.
C8_FindingsResolved ==
  \A t \in Callers :
    /\ (Ended(t) /\ op[t] = "analyze_only" /\ Analyzed(t))
         => WellFormed(ret[t].value, text[t])
    /\ (op[t] = "secure_text" /\ (pc[t] = "anonymize" \/ anonymizeCalled[t]))
         => WellFormed(results[t], text[t])

\* C9: the audit report is a projection of the findings: analyze_only returns
\* one record per finding, in the same order, with exactly the fields
\* entity_type, start, end and score of that finding and nothing else.
C9_Projection ==
  \A t \in Callers :
    (Ended(t) /\ op[t] = "analyze_only" /\ Analyzed(t))
      => /\ ret[t].kind = "return"
         /\ Len(ret[t].value) = Len(results[t])
         /\ \A i \in DOMAIN results[t] :
              /\ DOMAIN ret[t].value[i] = {"entity_type", "start", "end", "score"}
              /\ ret[t].value[i].entity_type = results[t][i].entity_type
              /\ ret[t].value[i].start = results[t][i].start
              /\ ret[t].value[i].end = results[t][i].end
              /\ ret[t].value[i].score = results[t][i].score

\* analyze_only has reported two findings of different types that the
\* analyzer returned out of order.
C9_Witness ==
  \E t \in Callers :
    /\ Ended(t) /\ op[t] = "analyze_only" /\ Analyzed(t)
    /\ Len(results[t]) = 2
    /\ results[t][1].start > results[t][2].start
    /\ results[t][1].entity_type # results[t][2].entity_type
    /\ Len(ret[t].value) = 2

\* C10, as stated: the analyzer is invoked with language 'en' and with exactly
\* the collection the caller supplied, an empty one included; the default
\* allowlist is used only when entities is omitted.
C10_CallersAllowlist ==
  \A t \in Callers :
    analyzeArgs[t].called
      => /\ analyzeArgs[t].language = "en"
         /\ entities[t].given => analyzeArgs[t].entities = entities[t].list
         /\ ~entities[t].given => analyzeArgs[t].entities = LEGAL_PII_ENTITIES

\* C10, amended: the analyzer is invoked with language 'en' and with exactly
\* the collection the caller supplied when that collection is not empty; the
\* default allowlist is used when entities is omitted or empty.
C10_NonEmptyAllowlist ==
  \A t \in Callers :
    analyzeArgs[t].called
      => /\ analyzeArgs[t].language = "en"
         /\ (entities[t].given /\ entities[t].list # << >>)
              => analyzeArgs[t].entities = entities[t].list
         /\ (~entities[t].given \/ entities[t].list = << >>)
              => analyzeArgs[t].entities = LEGAL_PII_ENTITIES

\* The analyzer has been invoked with the one-type allowlist of the caller.
C10_Witness ==
  \E t \in Callers :
    /\ analyzeArgs[t].called
    /\ entities[t] = Given(<< "PERSON" >>)
    /\ analyzeArgs[t].entities = << "PERSON" >>
    /\ analyzeArgs[t].language = "en"

====
